---- MODULE Spec2Model ----
(***************************************************************************)
(* markdown2html.py: a line-by-line Markdown to HTML converter.            *)
(*                                                                         *)
(* A Python str is modelled as a sequence of one-character strings, so     *)
(* that the regular expressions, rstrip, the substitutions and the digest  *)
(* are computed character by character as the code computes them.          *)
(***************************************************************************)
EXTENDS Integers, Sequences, FiniteSets, TLC

(* Number of lines of the input file, at most. *)
MaxLines == 4

(* Number of tokens in the content of a text given to the inline formatter. *)
MaxTokens == 3

(* Number of '#' a line given to the line parsers starts with, at most. *)
MaxHashes == 8

(* Number of tokens in the payload of a line given to the line parsers. *)
MaxPayload == 2

(* Python's None.  No str equals it: every element of a str is one character. *)
None == <<"None">>

(* Python truthiness of a value that is None or a str. *)
Truthy(v) == v # None /\ v # <<>>

Min(a, b) == IF a <= b THEN a ELSE b

StartsWith(s, p) == Len(s) >= Len(p) /\ SubSeq(s, 1, Len(p)) = p

Drop(s, n) == SubSeq(s, n + 1, Len(s))

(* str(n) for a one-digit n, as the f-strings format the heading level. *)
Digits == <<"0", "1", "2", "3", "4", "5", "6", "7", "8", "9">>

IntStr(n) == <<Digits[n + 1]>>

(* ------------------------------------------------------------------ *)
(* hashlib.md5(bytes).hexdigest(): RFC 1321 on 32-bit words, each word *)
(* held as <<high 16 bits, low 16 bits>>.                              *)
(* ------------------------------------------------------------------ *)

(* The printable characters, code points 32..126, in order (96, the grave
   accent, is left empty: it occurs in no text of the model). *)
Ascii ==
 <<
    " ", "!", "\"", "#", "$", "%", "&", "'", "(", ")", "*", "+", ",", "-", ".", "/",
    "0", "1", "2", "3", "4", "5", "6", "7", "8", "9", ":", ";", "<", "=", ">", "?",
    "@", "A", "B", "C", "D", "E", "F", "G", "H", "I", "J", "K", "L", "M", "N", "O",
    "P", "Q", "R", "S", "T", "U", "V", "W", "X", "Y", "Z", "[", "\\", "]", "^", "_",
    "", "a", "b", "c", "d", "e", "f", "g", "h", "i", "j", "k", "l", "m", "n", "o",
    "p", "q", "r", "s", "t", "u", "v", "w", "x", "y", "z", "{", "|", "}", "~"
 >>

Ord(c) == 31 + (CHOOSE i \in 1..Len(Ascii) : Ascii[i] = c)

(* str.encode(): the UTF-8 bytes of a text of printable ASCII characters. *)
encode(s) == [i \in 1..Len(s) |-> Ord(s[i])]

HexDigits == <<"0", "1", "2", "3", "4", "5", "6", "7", "8", "9", "a", "b", "c", "d", "e", "f">>

(* x AND y, x XOR y on 4-bit values, at [x + 1][y + 1]. *)
And4 ==
 <<
    <<0, 0, 0, 0, 0, 0, 0, 0, 0, 0, 0, 0, 0, 0, 0, 0>>,
    <<0, 1, 0, 1, 0, 1, 0, 1, 0, 1, 0, 1, 0, 1, 0, 1>>,
    <<0, 0, 2, 2, 0, 0, 2, 2, 0, 0, 2, 2, 0, 0, 2, 2>>,
    <<0, 1, 2, 3, 0, 1, 2, 3, 0, 1, 2, 3, 0, 1, 2, 3>>,
    <<0, 0, 0, 0, 4, 4, 4, 4, 0, 0, 0, 0, 4, 4, 4, 4>>,
    <<0, 1, 0, 1, 4, 5, 4, 5, 0, 1, 0, 1, 4, 5, 4, 5>>,
    <<0, 0, 2, 2, 4, 4, 6, 6, 0, 0, 2, 2, 4, 4, 6, 6>>,
    <<0, 1, 2, 3, 4, 5, 6, 7, 0, 1, 2, 3, 4, 5, 6, 7>>,
    <<0, 0, 0, 0, 0, 0, 0, 0, 8, 8, 8, 8, 8, 8, 8, 8>>,
    <<0, 1, 0, 1, 0, 1, 0, 1, 8, 9, 8, 9, 8, 9, 8, 9>>,
    <<0, 0, 2, 2, 0, 0, 2, 2, 8, 8, 10, 10, 8, 8, 10, 10>>,
    <<0, 1, 2, 3, 0, 1, 2, 3, 8, 9, 10, 11, 8, 9, 10, 11>>,
    <<0, 0, 0, 0, 4, 4, 4, 4, 8, 8, 8, 8, 12, 12, 12, 12>>,
    <<0, 1, 0, 1, 4, 5, 4, 5, 8, 9, 8, 9, 12, 13, 12, 13>>,
    <<0, 0, 2, 2, 4, 4, 6, 6, 8, 8, 10, 10, 12, 12, 14, 14>>,
    <<0, 1, 2, 3, 4, 5, 6, 7, 8, 9, 10, 11, 12, 13, 14, 15>>
 >>

Xor4 ==
 <<
    <<0, 1, 2, 3, 4, 5, 6, 7, 8, 9, 10, 11, 12, 13, 14, 15>>,
    <<1, 0, 3, 2, 5, 4, 7, 6, 9, 8, 11, 10, 13, 12, 15, 14>>,
    <<2, 3, 0, 1, 6, 7, 4, 5, 10, 11, 8, 9, 14, 15, 12, 13>>,
    <<3, 2, 1, 0, 7, 6, 5, 4, 11, 10, 9, 8, 15, 14, 13, 12>>,
    <<4, 5, 6, 7, 0, 1, 2, 3, 12, 13, 14, 15, 8, 9, 10, 11>>,
    <<5, 4, 7, 6, 1, 0, 3, 2, 13, 12, 15, 14, 9, 8, 11, 10>>,
    <<6, 7, 4, 5, 2, 3, 0, 1, 14, 15, 12, 13, 10, 11, 8, 9>>,
    <<7, 6, 5, 4, 3, 2, 1, 0, 15, 14, 13, 12, 11, 10, 9, 8>>,
    <<8, 9, 10, 11, 12, 13, 14, 15, 0, 1, 2, 3, 4, 5, 6, 7>>,
    <<9, 8, 11, 10, 13, 12, 15, 14, 1, 0, 3, 2, 5, 4, 7, 6>>,
    <<10, 11, 8, 9, 14, 15, 12, 13, 2, 3, 0, 1, 6, 7, 4, 5>>,
    <<11, 10, 9, 8, 15, 14, 13, 12, 3, 2, 1, 0, 7, 6, 5, 4>>,
    <<12, 13, 14, 15, 8, 9, 10, 11, 4, 5, 6, 7, 0, 1, 2, 3>>,
    <<13, 12, 15, 14, 9, 8, 11, 10, 5, 4, 7, 6, 1, 0, 3, 2>>,
    <<14, 15, 12, 13, 10, 11, 8, 9, 6, 7, 4, 5, 2, 3, 0, 1>>,
    <<15, 14, 13, 12, 11, 10, 9, 8, 7, 6, 5, 4, 3, 2, 1, 0>>
 >>

Bitwise16(T, a, b) ==
    T[(a % 16) + 1][(b % 16) + 1] + 16 * T[((a \div 16) % 16) + 1][((b \div 16) % 16) + 1]
    + 256 * T[((a \div 256) % 16) + 1][((b \div 256) % 16) + 1]
    + 4096 * T[(a \div 4096) + 1][(b \div 4096) + 1]

WAnd(x, y) == <<Bitwise16(And4, x[1], y[1]), Bitwise16(And4, x[2], y[2])>>

WXor(x, y) == <<Bitwise16(Xor4, x[1], y[1]), Bitwise16(Xor4, x[2], y[2])>>

WNot(x) == <<65535 - x[1], 65535 - x[2]>>

WOr(x, y) == WNot(WAnd(WNot(x), WNot(y)))

(* Addition modulo 2^32. *)
WAdd(x, y) == LET lo == x[2] + y[2]
                  hi == x[1] + y[1] + (lo \div 65536)
              IN <<hi % 65536, lo % 65536>>

(* Rotation to the left by s bits, 0 <= s < 32. *)
WRotl(x, s) == LET w == IF s >= 16 THEN <<x[2], x[1]>> ELSE x
                   r == s % 16
               IN IF r = 0 THEN w
                  ELSE <<((w[1] * (2^r)) % 65536) + (w[2] \div (2^(16 - r))),
                         ((w[2] * (2^r)) % 65536) + (w[1] \div (2^(16 - r)))>>

(* floor(2^32 * abs(sin(i))) for i = 1..64. *)
Md5K ==
 <<
    <<55146, 42104>>, <<59591, 46934>>, <<9248, 28891>>, <<49597, 52974>>,
    <<62844, 4015>>, <<18311, 50730>>, <<43056, 17939>>, <<64838, 38145>>,
    <<27008, 39128>>, <<35652, 63407>>, <<65535, 23473>>, <<35164, 55230>>,
    <<27536, 4386>>, <<64920, 29075>>, <<42617, 17294>>, <<18868, 2081>>,
    <<63006, 9570>>, <<49216, 45888>>, <<9822, 23121>>, <<59830, 51114>>,
    <<54831, 4189>>, <<580, 5203>>, <<55457, 59009>>, <<59347, 64456>>,
    <<8673, 52710>>, <<49975, 2006>>, <<62677, 3463>>, <<17754, 5357>>,
    <<43491, 59653>>, <<64751, 41976>>, <<26479, 729>>, <<36138, 19594>>,
    <<65530, 14658>>, <<34673, 63105>>, <<28061, 24866>>, <<64997, 14348>>,
    <<42174, 59972>>, <<19422, 53161>>, <<63163, 19296>>, <<48831, 48240>>,
    <<10395, 32454>>, <<60065, 10234>>, <<54511, 12421>>, <<1160, 7429>>,
    <<55764, 53305>>, <<59099, 39397>>, <<8098, 31992>>, <<50348, 22117>>,
    <<62505, 8772>>, <<17194, 65431>>, <<43924, 9127>>, <<64659, 41017>>,
    <<25947, 22979>>, <<36620, 52370>>, <<65519, 62589>>, <<34180, 24017>>,
    <<28584, 32335>>, <<65068, 59104>>, <<41729, 17172>>, <<19976, 4513>>,
    <<63315, 32386>>, <<48442, 62005>>, <<10967, 53947>>, <<60294, 54161>>
 >>

(* The per-round shift amounts. *)
Md5S ==
 <<
    7, 12, 17, 22, 7, 12, 17, 22, 7, 12, 17, 22, 7, 12, 17, 22,
    5, 9, 14, 20, 5, 9, 14, 20, 5, 9, 14, 20, 5, 9, 14, 20,
    4, 11, 16, 23, 4, 11, 16, 23, 4, 11, 16, 23, 4, 11, 16, 23,
    6, 10, 15, 21, 6, 10, 15, 21, 6, 10, 15, 21, 6, 10, 15, 21
 >>

Md5Init == <<<<26437, 8961>>, <<61389, 43913>>, <<39098, 56574>>, <<4146, 21622>>>>

(* The message, a 1 bit, zeros up to 56 modulo 64 bytes, the bit length in 64 bits. *)
Md5Pad(m) == LET n == Len(m)
                 z == (119 - (n % 64)) % 64
                 bits == 8 * n
             IN m \o <<128>> \o [i \in 1..z |-> 0]
                  \o <<bits % 256, (bits \div 256) % 256, (bits \div 65536) % 256,
                       bits \div 16777216, 0, 0, 0, 0>>

(* Little-endian word g of 64-byte block blk of the padded message p. *)
Md5Word(p, blk, g) == LET o == 64 * blk + 4 * g
                      IN <<p[o + 3] + 256 * p[o + 4], p[o + 1] + 256 * p[o + 2]>>

Md5Step(st, i, p, blk) ==
    LET A == st[1]
        B == st[2]
        C == st[3]
        D == st[4]
        F == IF i < 16 THEN WOr(WAnd(B, C), WAnd(WNot(B), D))
             ELSE IF i < 32 THEN WOr(WAnd(D, B), WAnd(WNot(D), C))
             ELSE IF i < 48 THEN WXor(B, WXor(C, D))
             ELSE WXor(C, WOr(B, WNot(D)))
        g == IF i < 16 THEN i
             ELSE IF i < 32 THEN (5 * i + 1) % 16
             ELSE IF i < 48 THEN (3 * i + 5) % 16
             ELSE (7 * i) % 16
        T == WAdd(WAdd(F, A), WAdd(Md5K[i + 1], Md5Word(p, blk, g)))
    IN <<D, WAdd(B, WRotl(T, Md5S[i + 1])), B, C>>

RECURSIVE Md5Rounds(_, _, _, _)
Md5Rounds(st, i, p, blk) ==
    IF Len(st) # 4 \/ i = 64 THEN st
    ELSE Md5Rounds(Md5Step(st, i, p, blk), i + 1, p, blk)

RECURSIVE Md5Blocks(_, _, _)
Md5Blocks(h, p, blk) ==
    IF 64 * blk >= Len(p) THEN h
    ELSE LET r == Md5Rounds(h, 0, p, blk)
         IN Md5Blocks([k \in 1..4 |-> WAdd(h[k], r[k])], p, blk + 1)

HexByte(b) == <<HexDigits[(b \div 16) + 1], HexDigits[(b % 16) + 1]>>

HexWord(w) == HexByte(w[2] % 256) \o HexByte(w[2] \div 256)
              \o HexByte(w[1] % 256) \o HexByte(w[1] \div 256)

(* hashlib.md5(b).hexdigest(): 32 lower-case hexadecimal digits. *)
md5_hexdigest(b) == LET h == Md5Blocks(Md5Init, Md5Pad(b), 0)
                    IN HexWord(h[1]) \o HexWord(h[2]) \o HexWord(h[3]) \o HexWord(h[4])

(* str.lower() on the characters the digest is made of. *)
lower(s) == [i \in 1..Len(s) |->
               IF s[i] \in {"A", "B", "C", "D", "E", "F"}
               THEN HexDigits[10 + (CHOOSE k \in 1..6 : <<"A", "B", "C", "D", "E", "F">>[k] = s[i])]
               ELSE s[i]]

(* ------------------------------------------------------------------ *)
(* The regular expressions and the parsing functions                   *)
(* ------------------------------------------------------------------ *)

(* str.rstrip(): trailing whitespace removed. *)
Whitespace == {" ", "\t", "\n", "\r"}

(* The removal of trailing spaces only. *)
RECURSIVE rstrip_SpacesOnly(_)
rstrip_SpacesOnly(s) == IF s # <<>> /\ s[Len(s)] = " "
                        THEN rstrip_SpacesOnly(SubSeq(s, 1, Len(s) - 1))
                        ELSE s

RECURSIVE rstrip(_)
rstrip(s) == IF s # <<>> /\ s[Len(s)] \in Whitespace
             THEN rstrip(SubSeq(s, 1, Len(s) - 1))
             ELSE s

(* The least j >= from at which the closing delimiter stands with no newline
   before it, or 0: where (.*?) followed by the closing delimiter stops. *)
RECURSIVE FindClose(_, _, _)
FindClose(text, close, from) ==
    IF from + 1 > Len(text) THEN 0
    ELSE IF text[from] = close[1] /\ text[from + 1] = close[2] THEN from
    ELSE IF text[from] = "\n" THEN 0
    ELSE FindClose(text, close, from + 1)

BoldRepl(m) == <<"<", "b", ">">> \o m \o <<"<", "/", "b", ">">>

EmRepl(m) == <<"<", "e", "m", ">">> \o m \o <<"<", "/", "e", "m", ">">>

Md5Repl(m) == lower(md5_hexdigest(encode(m)))

(* The deletion of the lower-case c only. *)
StripRepl_LowerOnly(m) == SelectSeq(m, LAMBDA ch : ch # "c")

(* m.translate(str.maketrans('', '', 'cC')) *)
StripRepl(m) == SelectSeq(m, LAMBDA ch : ch \notin {"c", "C"})

(* The replacement of a match with group 1 = m, for each of the four re.sub calls. *)
Repl(which, m) == CASE which = "bold" -> BoldRepl(m)
                    [] which = "em" -> EmRepl(m)
                    [] which = "md5" -> Md5Repl(m)
                    [] which = "strip" -> StripRepl(m)

(* re.sub(open (.*?) close, replacement, text) for two-character delimiters,
   from position i on: scanning from the left, an opening delimiter followed
   (after any characters but a newline, as few as possible) by a closing one is
   replaced, and the scan goes on after the match; every other character is
   copied. *)
RECURSIVE ReSubFrom(_, _, _, _, _)
ReSubFrom(text, open, close, which, i) ==
    IF i > Len(text) THEN <<>>
    ELSE LET j == IF i + 1 <= Len(text) /\ text[i] = open[1] /\ text[i + 1] = open[2]
                  THEN FindClose(text, close, i + 2)
                  ELSE 0
         IN IF j # 0
            THEN Repl(which, SubSeq(text, i + 2, j - 1))
                   \o ReSubFrom(text, open, close, which, j + 2)
            ELSE <<text[i]>> \o ReSubFrom(text, open, close, which, i + 1)

ReSub(text, open, close, which) == ReSubFrom(text, open, close, which, 1)

BoldSub(text) == ReSub(text, <<"*", "*">>, <<"*", "*">>, "bold")

EmSub(text) == ReSub(text, <<"_", "_">>, <<"_", "_">>, "em")

Md5Sub(text) == ReSub(text, <<"[", "[">>, <<"]", "]">>, "md5")

StripSub(text) == ReSub(text, <<"(", "(">>, <<")", ")">>, "strip")

(* The four substitutions with the digest and the strip applied before bold
   and emphasis. *)
parse_inline_formatting_SpecialFirst(text) == EmSub(BoldSub(StripSub(Md5Sub(text))))

parse_inline_formatting(text) == StripSub(Md5Sub(EmSub(BoldSub(text))))

(* Length of the run of '#' the line starts with: what (#+) takes before ' '. *)
RECURSIVE HashRun(_)
HashRun(s) == IF s # <<>> /\ s[1] = "#" THEN 1 + HashRun(Drop(s, 1)) ELSE 0

(* The heading with the level left unclamped. *)
parse_heading_NoClamp(line) ==
    LET k == HashRun(line)
    IN IF k >= 1 /\ Len(line) > k /\ line[k + 1] = " "
       THEN LET level == IntStr(k)
            IN <<"<", "h">> \o level \o <<">">> \o Drop(line, k + 1)
                 \o <<"<", "/", "h">> \o level \o <<">">>
       ELSE None

(* The heading with its text given to the inline formatter. *)
parse_heading_Formatted(line) ==
    LET k == HashRun(line)
    IN IF k >= 1 /\ Len(line) > k /\ line[k + 1] = " "
       THEN LET level == IntStr(Min(k, 6))
            IN <<"<", "h">> \o level \o <<">">> \o parse_inline_formatting(Drop(line, k + 1))
                 \o <<"<", "/", "h">> \o level \o <<">">>
       ELSE None

parse_heading(line) ==
    LET k == HashRun(line)
    IN IF k >= 1 /\ Len(line) > k /\ line[k + 1] = " "
       THEN LET level == IntStr(Min(k, 6))
            IN <<"<", "h">> \o level \o <<">">> \o Drop(line, k + 1)
                 \o <<"<", "/", "h">> \o level \o <<">">>
       ELSE None

UL == <<"u", "l">>

OL == <<"o", "l">>

(* The list item recognised by its marker character alone. *)
parse_list_item_MarkerOnly(line, list_type) ==
    LET marker == IF list_type = UL THEN <<"-">> ELSE <<"*">>
    IN IF StartsWith(line, marker)
       THEN <<"<", "l", "i", ">">> \o parse_inline_formatting(Drop(line, 2))
              \o <<"<", "/", "l", "i", ">">>
       ELSE None

parse_list_item(line, list_type) ==
    LET marker == IF list_type = UL THEN <<"-", " ">> ELSE <<"*", " ">>
    IN IF StartsWith(line, marker)
       THEN <<"<", "l", "i", ">">> \o parse_inline_formatting(Drop(line, 2))
              \o <<"<", "/", "l", "i", ">">>
       ELSE None

(* ------------------------------------------------------------------ *)
(* The fragments and the block helpers                                 *)
(* ------------------------------------------------------------------ *)

(* An entry of html_lines.  text is the str the code appends; kind records
   which append statement emitted it and is read by no operation. *)
Frag(kind, text) == [kind |-> kind, text |-> text]

OpenTag(tag) == <<"<">> \o tag \o <<">">>

CloseTag(tag) == <<"<", "/">> \o tag \o <<">">>

P == <<"p">>

BR == <<"<", "b", "r", "/", ">">>

(* close_blocks without its second test: an open list stays open. *)
close_blocks_NoListClose(html, cur, inp) ==
    IF inp THEN Append(html, Frag("close", CloseTag(P))) ELSE html

(* close_blocks without its first test: an open paragraph stays open. *)
close_blocks_NoParagraphClose(html, cur, inp) ==
    IF Truthy(cur) THEN Append(html, Frag("close", CloseTag(cur))) ELSE html

(* close_blocks appending </p> whether a paragraph is open or not. *)
close_blocks_AlwaysClosesParagraph(html, cur, inp) ==
    LET a == Append(html, Frag("close", CloseTag(P)))
    IN IF Truthy(cur) THEN Append(a, Frag("close", CloseTag(cur))) ELSE a

close_blocks(html, cur, inp) ==
    LET a == IF inp THEN Append(html, Frag("close", CloseTag(P))) ELSE html
    IN IF Truthy(cur) THEN Append(a, Frag("close", CloseTag(cur))) ELSE a

(* handle_list_item opening the new list without closing the list that is open. *)
handle_list_item_NoClose(html, item, list_type, cur, inp) ==
    LET a == IF inp THEN Append(html, Frag("close", CloseTag(P))) ELSE html
        b == IF cur # list_type THEN Append(a, Frag("open", OpenTag(list_type))) ELSE a
    IN Append(b, Frag("item", item))

(* handle_list_item leaving an open paragraph open. *)
handle_list_item_KeepsParagraph(html, item, list_type, cur, inp) ==
    LET b == IF cur # list_type
             THEN LET c == IF Truthy(cur) THEN Append(html, Frag("close", CloseTag(cur)))
                           ELSE html
                  IN Append(c, Frag("open", OpenTag(list_type)))
             ELSE html
    IN Append(b, Frag("item", item))

handle_list_item(html, item, list_type, cur, inp) ==
    LET a == IF inp THEN Append(html, Frag("close", CloseTag(P))) ELSE html
        b == IF cur # list_type
             THEN LET c == IF Truthy(cur) THEN Append(a, Frag("close", CloseTag(cur))) ELSE a
                  IN Append(c, Frag("open", OpenTag(list_type)))
             ELSE a
    IN Append(b, Frag("item", item))

(* The empty-line branch closing the paragraph only. *)
blank_line_NoListClose(html, cur, inp) ==
    IF inp THEN Append(html, Frag("close", CloseTag(P))) ELSE html

(* The empty-line branch of the loop: what it appends. *)
blank_line(html, cur, inp) ==
    LET a == IF inp THEN Append(html, Frag("close", CloseTag(P))) ELSE html
    IN IF Truthy(cur) THEN Append(a, Frag("close", CloseTag(cur))) ELSE a

(* The paragraph branch opening a <p> for every line. *)
paragraph_line_AlwaysOpens(html, inp, formatted_line) ==
    Append(Append(html, Frag("open", OpenTag(P))), Frag("text", formatted_line))

(* The paragraph branch putting the <br/> after the line instead of before it. *)
paragraph_line_BreakAfter(html, inp, formatted_line) ==
    IF ~inp
    THEN Append(Append(html, Frag("open", OpenTag(P))), Frag("text", formatted_line))
    ELSE Append(Append(html, Frag("text", formatted_line)), Frag("br", BR))

(* The paragraph branch of the loop: what it appends. *)
paragraph_line(html, inp, formatted_line) ==
    LET a == IF ~inp THEN Append(html, Frag("open", OpenTag(P)))
             ELSE Append(html, Frag("br", BR))
    IN Append(a, Frag("text", formatted_line))

(* '\n'.join(the texts of html) *)
RECURSIVE join(_)
join(html) == IF html = <<>> THEN <<>>
              ELSE IF Len(html) = 1 THEN html[1].text
              ELSE html[1].text \o <<"\n">> \o join(Drop(html, 1))

(* ------------------------------------------------------------------ *)
(* The state                                                           *)
(* ------------------------------------------------------------------ *)

VARIABLES
    pc,            \* where the program is: "main", "loop", "write", "return", "exit"
                   \* (and "format", "formatted" when the inline formatter runs alone)
    argv,          \* sys.argv
    input_exists,  \* os.path.exists(input_file)
    md_file_len,   \* the number of lines of the input file
    exit_status,   \* the status passed to sys.exit, -1 while the process runs
    stderr,        \* the messages printed to sys.stderr
    output_file,   \* <<>> while the output file is absent, else <<its content>>
    writes,        \* history: the number of times the output file was written
    html_lines,    \* convert_markdown_to_html: the fragments emitted so far
    current_list,  \* None, 'ul' or 'ol'
    in_paragraph,  \* True while a <p> is open
    line,          \* the loop variable, after rstrip
    nread,         \* the number of lines read so far
    consumed,      \* history: the lines read so far, as the file iterator yielded them
    last,          \* history: the last step of the loop and the state it started in
    run,           \* history: length of the run of items of one kind read since no block was open
    text,          \* the argument of parse_inline_formatting when it runs alone
    result         \* its return value

vars == <<pc, argv, input_exists, md_file_len, exit_status, stderr, output_file, writes,
          html_lines, current_list, in_paragraph, line, nread, consumed, last, run,
          text, result>>

mainVars == <<argv, input_exists, md_file_len, exit_status, stderr, output_file, writes>>

convertVars == <<html_lines, current_list, in_paragraph, line, nread, consumed, last, run>>

inlineVars == <<text, result>>

(* The raw lines the input file is made of, each as the file iterator yields it. *)
Lines ==
    { <<"\n">>,
      <<" ", " ", "\n">>,
      <<"#", " ", "T", "i", "t", "l", "e", "\n">>,
      <<"H", "e", "l", "l", "o", " ", "*", "*", "w", "o", "r", "l", "d", "*", "*", "\n">>,
      <<"-", " ", "o", "n", "e", "\n">>,
      <<"-", " ", "t", "w", "o", "\n">>,
      <<"*", " ", "(", "(", "c", "a", "t", ")", ")", "\n">>,
      <<"-", " ", "\n">>,
      <<"<", "/", "p", ">", "\n">> }

Argvs == { <<"./markdown2html.py">>,
           <<"./markdown2html.py", "README.md">>,
           <<"./markdown2html.py", "README.md", "README.html">> }

NoStep == [op |-> "none", prev |-> "none", list |-> None, par |-> FALSE, len |-> 0, run |-> 0]

Init ==
    /\ pc = "main"
    /\ argv \in Argvs
    /\ input_exists \in BOOLEAN
    /\ md_file_len \in (IF input_exists THEN 0..MaxLines ELSE {0})
    /\ exit_status = -1
    /\ stderr = <<>>
    /\ output_file = <<>>
    /\ writes = 0
    /\ html_lines = <<>>
    /\ current_list = None
    /\ in_paragraph = FALSE
    /\ line = <<>>
    /\ nread = 0
    /\ consumed = <<>>
    /\ last = NoStep
    /\ run = 0
    /\ text = <<>>
    /\ result = <<>>

(* ------------------------------------------------------------------ *)
(* main                                                                *)
(* ------------------------------------------------------------------ *)

(* The usage message followed by a successful exit. *)
MainUsage_ExitZero ==
    /\ pc = "main"
    /\ Len(argv) < 3
    /\ stderr' = Append(stderr, <<"Usage: ./markdown2html.py README.md README.html">>)
    /\ exit_status' = 0
    /\ pc' = "exit"
    /\ UNCHANGED <<argv, input_exists, md_file_len, output_file, writes, convertVars, inlineVars>>

MainUsage ==
    /\ pc = "main"
    /\ Len(argv) < 3
    /\ stderr' = Append(stderr, <<"Usage: ./markdown2html.py README.md README.html">>)
    /\ exit_status' = 1
    /\ pc' = "exit"
    /\ UNCHANGED <<argv, input_exists, md_file_len, output_file, writes, convertVars, inlineVars>>

(* The output file opened for writing before the input file is looked for. *)
MainMissing_CreatesOutput ==
    /\ pc = "main"
    /\ ~(Len(argv) < 3)
    /\ ~input_exists
    /\ output_file' = <<<<>>>>
    /\ writes' = writes + 1
    /\ stderr' = Append(stderr, <<"Missing", argv[2]>>)
    /\ exit_status' = 1
    /\ pc' = "exit"
    /\ UNCHANGED <<argv, input_exists, md_file_len, convertVars, inlineVars>>

MainMissing ==
    /\ pc = "main"
    /\ ~(Len(argv) < 3)
    /\ ~input_exists
    /\ stderr' = Append(stderr, <<"Missing", argv[2]>>)
    /\ exit_status' = 1
    /\ pc' = "exit"
    /\ UNCHANGED <<argv, input_exists, md_file_len, output_file, writes, convertVars, inlineVars>>

(* The call of convert_markdown_to_html up to the loop. *)
MainConvert ==
    /\ pc = "main"
    /\ ~(Len(argv) < 3)
    /\ input_exists
    /\ html_lines' = <<>>
    /\ current_list' = None
    /\ in_paragraph' = FALSE
    /\ pc' = "loop"
    /\ UNCHANGED <<mainVars, line, nread, consumed, last, run, inlineVars>>

(* ------------------------------------------------------------------ *)
(* convert_markdown_to_html: one action per branch of the loop body    *)
(* ------------------------------------------------------------------ *)

(* The loop has a next line to read. *)
HasLine == pc = "loop" /\ nread < md_file_len

(* What every iteration does besides its branch. *)
Iteration(raw, op) ==
    /\ line' = rstrip(raw)
    /\ nread' = nread + 1
    /\ consumed' = Append(consumed, raw)
    /\ last' = [op |-> op, prev |-> last.op, list |-> current_list, par |-> in_paragraph,
                len |-> Len(html_lines), run |-> run]
    /\ pc' = pc
    /\ UNCHANGED <<mainVars, inlineVars>>

RunAfterItem(list_type) ==
    IF current_list = None /\ ~in_paragraph THEN 1
    ELSE IF run > 0 /\ current_list = list_type /\ ~in_paragraph THEN run + 1
    ELSE 0

BlankLine(raw) ==
    /\ HasLine
    /\ LET l == rstrip(raw)
       IN /\ l = <<>>
          /\ Iteration(raw, "blank")
          /\ html_lines' = blank_line(html_lines, current_list, in_paragraph)
          /\ in_paragraph' = FALSE
          /\ current_list' = None
          /\ run' = 0

HeadingLine(raw) ==
    /\ HasLine
    /\ LET l == rstrip(raw)
           heading == parse_heading(l)
       IN /\ l # <<>>
          /\ Truthy(heading)
          /\ Iteration(raw, "heading")
          /\ html_lines' = Append(close_blocks(html_lines, current_list, in_paragraph),
                                  Frag("heading", heading))
          /\ current_list' = None
          /\ in_paragraph' = FALSE
          /\ run' = 0

UlItem(raw) ==
    /\ HasLine
    /\ LET l == rstrip(raw)
           ul_item == parse_list_item(l, UL)
       IN /\ l # <<>>
          /\ ~Truthy(parse_heading(l))
          /\ Truthy(ul_item)
          /\ Iteration(raw, "ul")
          /\ html_lines' = handle_list_item(html_lines, ul_item, UL, current_list, in_paragraph)
          /\ current_list' = UL
          /\ in_paragraph' = FALSE
          /\ run' = RunAfterItem(UL)

OlItem(raw) ==
    /\ HasLine
    /\ LET l == rstrip(raw)
           ol_item == parse_list_item(l, OL)
       IN /\ l # <<>>
          /\ ~Truthy(parse_heading(l))
          /\ ~Truthy(parse_list_item(l, UL))
          /\ Truthy(ol_item)
          /\ Iteration(raw, "ol")
          /\ html_lines' = handle_list_item(html_lines, ol_item, OL, current_list, in_paragraph)
          /\ current_list' = OL
          /\ in_paragraph' = FALSE
          /\ run' = RunAfterItem(OL)

ParagraphLine(raw) ==
    /\ HasLine
    /\ LET l == rstrip(raw)
       IN /\ l # <<>>
          /\ ~Truthy(parse_heading(l))
          /\ ~Truthy(parse_list_item(l, UL))
          /\ ~Truthy(parse_list_item(l, OL))
          /\ Iteration(raw, "text")
          /\ html_lines' = paragraph_line(html_lines, in_paragraph, parse_inline_formatting(l))
          /\ in_paragraph' = TRUE
          /\ current_list' = current_list
          /\ run' = 0

(* The end of the file: the loop is left and the open blocks are closed. *)
EndOfInput ==
    /\ pc = "loop"
    /\ nread = md_file_len
    /\ html_lines' = close_blocks(html_lines, current_list, in_paragraph)
    /\ last' = [op |-> "eof", prev |-> last.op, list |-> current_list, par |-> in_paragraph,
                len |-> Len(html_lines), run |-> run]
    /\ run' = 0
    /\ pc' = "write"
    /\ UNCHANGED <<mainVars, current_list, in_paragraph, line, nread, consumed, inlineVars>>

WriteOutput ==
    /\ pc = "write"
    /\ output_file' = <<join(html_lines)>>
    /\ writes' = writes + 1
    /\ pc' = "return"
    /\ UNCHANGED <<argv, input_exists, md_file_len, exit_status, stderr, convertVars, inlineVars>>

MainExit ==
    /\ pc = "return"
    /\ exit_status' = 0
    /\ pc' = "exit"
    /\ UNCHANGED <<argv, input_exists, md_file_len, stderr, output_file, writes, convertVars,
                   inlineVars>>

Next ==
    \/ MainUsage
    \/ MainMissing
    \/ MainConvert
    \/ \E raw \in Lines : BlankLine(raw)
    \/ \E raw \in Lines : HeadingLine(raw)
    \/ \E raw \in Lines : UlItem(raw)
    \/ \E raw \in Lines : OlItem(raw)
    \/ \E raw \in Lines : ParagraphLine(raw)
    \/ EndOfInput
    \/ WriteOutput
    \/ MainExit

Spec == Init /\ [][Next]_vars

(* ------------------------------------------------------------------ *)
(* The converter on files made of the lines of one example             *)
(* ------------------------------------------------------------------ *)

(* The file "# Title\n\nHello **world**\n- one\n- two\n", line by line. *)
ExampleInput ==
    << <<"#", " ", "T", "i", "t", "l", "e", "\n">>,
       <<"\n">>,
       <<"H", "e", "l", "l", "o", " ", "*", "*", "w", "o", "r", "l", "d", "*", "*", "\n">>,
       <<"-", " ", "o", "n", "e", "\n">>,
       <<"-", " ", "t", "w", "o", "\n">> >>

(* The lines of the example and one ordered item. *)
ExampleLines ==
    { ExampleInput[i] : i \in 1..Len(ExampleInput) }
    \cup { <<"*", " ", "(", "(", "c", "a", "t", ")", ")", "\n">> }

(* The input file exists and is no longer than the example. *)
InitExample ==
    /\ pc = "main"
    /\ argv = <<"./markdown2html.py", "README.md", "README.html">>
    /\ input_exists = TRUE
    /\ md_file_len \in 0..Len(ExampleInput)
    /\ exit_status = -1
    /\ stderr = <<>>
    /\ output_file = <<>>
    /\ writes = 0
    /\ html_lines = <<>>
    /\ current_list = None
    /\ in_paragraph = FALSE
    /\ line = <<>>
    /\ nread = 0
    /\ consumed = <<>>
    /\ last = NoStep
    /\ run = 0
    /\ text = <<>>
    /\ result = <<>>

NextExample ==
    \/ MainConvert
    \/ \E raw \in ExampleLines : BlankLine(raw)
    \/ \E raw \in ExampleLines : HeadingLine(raw)
    \/ \E raw \in ExampleLines : UlItem(raw)
    \/ \E raw \in ExampleLines : OlItem(raw)
    \/ \E raw \in ExampleLines : ParagraphLine(raw)
    \/ EndOfInput
    \/ WriteOutput
    \/ MainExit

SpecExample == InitExample /\ [][NextExample]_vars

(* ------------------------------------------------------------------ *)
(* parse_inline_formatting alone, on bounded texts                     *)
(* ------------------------------------------------------------------ *)

Tokens == { <<"*", "*">>, <<"_", "_">>, <<"c">>, <<"C">>, <<"a">>, <<"]">>, <<")">> }

RECURSIVE Flatten(_)
Flatten(ts) == IF ts = <<>> THEN <<>> ELSE ts[1] \o Flatten(Drop(ts, 1))

Contents == { Flatten(ts) : ts \in UNION { [1..n -> Tokens] : n \in 0..MaxTokens } }

InlineTexts ==
    Contents
    \cup { <<"[", "[">> \o s \o <<"]", "]">> : s \in Contents }
    \cup { <<"(", "(">> \o s \o <<")", ")">> : s \in Contents }

InitInline ==
    /\ pc = "format"
    /\ text \in InlineTexts
    /\ result = <<>>
    /\ argv = <<"./markdown2html.py">>
    /\ input_exists = FALSE
    /\ md_file_len = 0
    /\ exit_status = -1
    /\ stderr = <<>>
    /\ output_file = <<>>
    /\ writes = 0
    /\ html_lines = <<>>
    /\ current_list = None
    /\ in_paragraph = FALSE
    /\ line = <<>>
    /\ nread = 0
    /\ consumed = <<>>
    /\ last = NoStep
    /\ run = 0

Format ==
    /\ pc = "format"
    /\ result' = parse_inline_formatting(text)
    /\ pc' = "formatted"
    /\ UNCHANGED <<mainVars, convertVars, text>>

NextInline == Format

SpecInline == InitInline /\ [][NextInline]_vars

(* ------------------------------------------------------------------ *)
(* parse_heading and parse_list_item alone, on bounded lines           *)
(* ------------------------------------------------------------------ *)

RECURSIVE Hashes(_)
Hashes(k) == IF k = 0 THEN <<>> ELSE <<"#">> \o Hashes(k - 1)

PayloadTokens == { <<"a">>, <<" ">>, <<"#">>,
                   <<"*", "*", "a", "*", "*">>,
                   <<"_", "_", "a", "_", "_">>,
                   <<"(", "(", "c", ")", ")">> }

Payloads == { Flatten(ts) : ts \in UNION { [1..n -> PayloadTokens] : n \in 0..MaxPayload } }

(* Lines as the loop hands them to the parsers: a run of '#' or a list marker
   or nothing, then a space or nothing, then the payload. *)
ParseTexts ==
    { m \o sep \o t : m \in { Hashes(k) : k \in 0..MaxHashes } \cup { <<"-">>, <<"*">> },
                      sep \in { <<>>, <<" ">> },
                      t \in Payloads }

InitParse ==
    /\ pc = "parse"
    /\ text \in ParseTexts
    /\ result = <<>>
    /\ argv = <<"./markdown2html.py">>
    /\ input_exists = FALSE
    /\ md_file_len = 0
    /\ exit_status = -1
    /\ stderr = <<>>
    /\ output_file = <<>>
    /\ writes = 0
    /\ html_lines = <<>>
    /\ current_list = None
    /\ in_paragraph = FALSE
    /\ line = <<>>
    /\ nread = 0
    /\ consumed = <<>>
    /\ last = NoStep
    /\ run = 0

(* heading = parse_heading(line) *)
ParseHeading ==
    /\ pc = "parse"
    /\ result' = parse_heading(text)
    /\ pc' = "heading"
    /\ UNCHANGED <<mainVars, convertVars, text>>

(* ul_item = parse_list_item(line, 'ul') *)
ParseUlItem ==
    /\ pc = "parse"
    /\ result' = parse_list_item(text, UL)
    /\ pc' = "ul_item"
    /\ UNCHANGED <<mainVars, convertVars, text>>

(* ol_item = parse_list_item(line, 'ol') *)
ParseOlItem ==
    /\ pc = "parse"
    /\ result' = parse_list_item(text, OL)
    /\ pc' = "ol_item"
    /\ UNCHANGED <<mainVars, convertVars, text>>

NextParse ==
    \/ ParseHeading
    \/ ParseUlItem
    \/ ParseOlItem

SpecParse == InitParse /\ [][NextParse]_vars

(* ------------------------------------------------------------------ *)
(* Vocabulary of the properties                                        *)
(* ------------------------------------------------------------------ *)

(* The fragments the last step appended, and their texts. *)
Appended == SubSeq(html_lines, last.len + 1, Len(html_lines))

Texts(fs) == [i \in 1..Len(fs) |-> fs[i].text]

Kinds(fs) == [i \in 1..Len(fs) |-> fs[i].kind]

TagOpenP == <<"<", "p", ">">>

TagCloseP == <<"<", "/", "p", ">">>

TagBr == <<"<", "b", "r", "/", ">">>

TagOpenList(l) == IF l = <<"u", "l">> THEN <<"<", "u", "l", ">">> ELSE <<"<", "o", "l", ">">>

TagCloseList(l) == IF l = <<"u", "l">> THEN <<"<", "/", "u", "l", ">">>
                   ELSE <<"<", "/", "o", "l", ">">>

(* The close tags of the blocks open in a state, paragraph first. *)
ClosesOf(list, par) ==
    (IF par THEN <<TagCloseP>> ELSE <<>>) \o (IF list # None THEN <<TagCloseList(list)>> ELSE <<>>)

(* The list kind an item step is about. *)
ListOfOp(op) == IF op = "ul" THEN <<"u", "l">> ELSE <<"o", "l">>

(* The <li> fragment of the line just read. *)
ItemText == <<"<", "l", "i", ">">> \o parse_inline_formatting(Drop(line, 2))
              \o <<"<", "/", "l", "i", ">">>

(* Number of fragments of a kind and text among the first k fragments. *)
CountIn(k, kind, txt) ==
    Cardinality({i \in 1..k : html_lines[i].kind = kind /\ html_lines[i].text = txt})

(* Opens and closes of a tag match: as many closes as opens, and in every
   prefix no more closes than opens. *)
Balanced(open, close) ==
    /\ CountIn(Len(html_lines), "open", open) = CountIn(Len(html_lines), "close", close)
    /\ \A k \in 1..Len(html_lines) : CountIn(k, "close", close) <= CountIn(k, "open", open)

(* Number of blocks open after the first k fragments. *)
OpenAfter(k) ==
    Cardinality({i \in 1..k : html_lines[i].kind = "open"})
    - Cardinality({i \in 1..k : html_lines[i].kind = "close"})

(* ------------------------------------------------------------------ *)
(* The properties                                                      *)
(* ------------------------------------------------------------------ *)

(* C1: after any prefix of the input has been processed, a paragraph and a
   list are never open at the same time. *)
C1_AtMostOneBlockOpen ==
    pc = "loop" => ~(in_paragraph /\ current_list # None)

(* C2: a paragraph-text line read while a list (and no paragraph) is open
   appends exactly the list's close tag, <p> and the formatted text, and
   leaves only the paragraph open. *)
C2_TextClosesOpenList ==
    (pc = "loop" /\ last.op = "text" /\ last.list # None /\ ~last.par)
    => /\ Texts(Appended) = <<TagCloseList(last.list), TagOpenP, parse_inline_formatting(line)>>
       /\ in_paragraph
       /\ current_list = None

(* C3: when the conversion has finished, every <p>, <ul> and <ol> that was
   opened has a close fragment after it: as many closes as opens of each tag,
   and never a close before its open. *)
C3_EveryBlockClosedAtEnd ==
    (pc \in {"write", "return", "exit"} /\ last.op = "eof")
    => /\ Balanced(TagOpenP, TagCloseP)
       /\ Balanced(TagOpenList(UL), TagCloseList(UL))
       /\ Balanced(TagOpenList(OL), TagCloseList(OL))

(* Reached: the input ends with a list and a paragraph still open, and the end
   of input appends both close tags. *)
C3_Witness ==
    /\ pc = "write"
    /\ last.op = "eof"
    /\ last.list = UL
    /\ last.par
    /\ Texts(Appended) = <<TagCloseP, TagCloseList(UL)>>

(* C4: a blank line appends one close fragment for every open block, and
   nothing when no block is open; after it no block is open. *)
C4_BlankLineClosesAll ==
    (pc = "loop" /\ last.op = "blank")
    => /\ Texts(Appended) = ClosesOf(last.list, last.par)
       /\ \A i \in 1..Len(Appended) : Appended[i].kind = "close"
       /\ ~in_paragraph
       /\ current_list = None

(* Reached: a blank line read while an ordered list is open closes it. *)
C4_Witness ==
    /\ pc = "loop"
    /\ last.op = "blank"
    /\ last.list = OL
    /\ ~last.par
    /\ Texts(Appended) = <<TagCloseList(OL)>>

(* C5: a heading line appends the close fragments of all open blocks and then
   the heading fragment, and leaves no block open; hence no heading fragment
   stands where a block is open. *)
C5_HeadingClosesFirst ==
    /\ (pc = "loop" /\ last.op = "heading")
       => /\ Texts(Appended) = ClosesOf(last.list, last.par) \o <<parse_heading(line)>>
          /\ Appended[Len(Appended)].kind = "heading"
          /\ ~in_paragraph
          /\ current_list = None
    /\ \A i \in 1..Len(html_lines) : html_lines[i].kind = "heading" => OpenAfter(i - 1) = 0

(* Reached: a heading read while a paragraph is open. *)
C5_Witness ==
    /\ pc = "loop"
    /\ last.op = "heading"
    /\ last.par
    /\ last.list = None
    /\ Len(Appended) = 2
    /\ Appended[1].text = TagCloseP

(* C6: an item line read while a paragraph is open appends exactly </p>, the
   open tag of its list and its <li>, whatever came before the paragraph, and
   leaves only that list open. *)
C6_ItemAfterParagraph ==
    (pc = "loop" /\ last.op \in {"ul", "ol"} /\ last.par)
    => /\ Texts(Appended) = <<TagCloseP, TagOpenList(ListOfOp(last.op)), ItemText>>
       /\ current_list = ListOfOp(last.op)
       /\ ~in_paragraph

(* C7: a run of n >= 1 items of one kind that starts with no block open and is
   followed by a blank line or the end of input has produced one open tag, n
   <li> fragments and one close tag; and an item read while a list of its kind
   is open appends only its <li>. *)
C7_ItemRuns ==
    /\ (last.op \in {"blank", "eof"} /\ last.run >= 1)
       => /\ last.len > last.run
          /\ html_lines[last.len - last.run] = Frag("open", TagOpenList(last.list))
          /\ \A i \in (last.len - last.run + 1)..last.len : html_lines[i].kind = "item"
          /\ Appended = <<Frag("close", TagCloseList(last.list))>>
    /\ (pc = "loop" /\ last.op \in {"ul", "ol"} /\ last.list = ListOfOp(last.op))
       => Texts(Appended) = <<ItemText>>

(* C8: an item of one kind read directly after an item of the other kind
   appends the close tag of the other list, the open tag of its own and its
   <li>, and leaves its own list open. *)
C8_SwitchListKind ==
    (pc = "loop" /\ last.op \in {"ul", "ol"} /\ last.prev \in {"ul", "ol"} /\ last.prev # last.op)
    => /\ Texts(Appended) = <<TagCloseList(ListOfOp(last.prev)),
                              TagOpenList(ListOfOp(last.op)), ItemText>>
       /\ Kinds(Appended) = <<"close", "open", "item">>
       /\ current_list = ListOfOp(last.op)
       /\ ~in_paragraph

(* Reached: an ordered item directly after an unordered one. *)
C8_Witness ==
    /\ pc = "loop"
    /\ last.op = "ol"
    /\ last.prev = "ul"
    /\ Texts(Appended)[1] = TagCloseList(UL)

(* C9: a paragraph-text line read while a paragraph is open appends <br/> and
   the formatted text and no <p>; read while no block is open it appends <p>
   and the formatted text; the paragraph is open afterwards. *)
C9_ParagraphText ==
    (pc = "loop" /\ last.op = "text")
    => /\ last.par
          => /\ Texts(Appended) = <<TagBr, parse_inline_formatting(line)>>
             /\ Kinds(Appended) = <<"br", "text">>
       /\ (~last.par /\ last.list = None)
          => /\ Texts(Appended) = <<TagOpenP, parse_inline_formatting(line)>>
             /\ Kinds(Appended) = <<"open", "text">>
       /\ in_paragraph

(* Reached: a second text line of a paragraph that was opened with no block
   open. *)
C9_Witness ==
    /\ pc = "loop"
    /\ last.op = "text"
    /\ last.par
    /\ Len(html_lines) = 4
    /\ Kinds(html_lines) = <<"open", "text", "br", "text">>

(* The text is one span: it starts with the opening delimiter, ends with the
   closing one, and its content holds no bracket or parenthesis. *)
IsSpan(t, open, close) ==
    /\ Len(t) >= 4
    /\ SubSeq(t, 1, 2) = open
    /\ SubSeq(t, Len(t) - 1, Len(t)) = close
    /\ \A i \in 3..(Len(t) - 2) : t[i] \notin {"[", "]", "(", ")"}

Inner(t) == SubSeq(t, 3, Len(t) - 2)

IsDigestSpan(t) == IsSpan(t, <<"[", "[">>, <<"]", "]">>)

IsStripSpan(t) == IsSpan(t, <<"(", "(">>, <<")", ")">>)

(* s with every 'c' and 'C' deleted. *)
RECURSIVE WithoutC(_)
WithoutC(s) == IF s = <<>> THEN <<>>
               ELSE IF s[1] = "c" \/ s[1] = "C" THEN WithoutC(Drop(s, 1))
               ELSE <<s[1]>> \o WithoutC(Drop(s, 1))

HexDigest(s) == md5_hexdigest(encode(s))

(* C10, as stated: bold and emphasis markers inside a [[...]] or ((...)) span
   are literal characters of the content: the digest is that of the raw
   content, and the result of the strip is the raw content without its c and C. *)
C10_MarkersInSpansAreLiteral ==
    pc = "formatted"
    => /\ IsDigestSpan(text) => result = HexDigest(Inner(text))
       /\ IsStripSpan(text) => result = WithoutC(Inner(text))

(* C10, amended: bold and emphasis pairs inside a [[...]] or ((...)) span are
   turned into <b> and <em> tags first: the digest is that of the content after
   the bold and emphasis substitutions, and the strip deletes c and C from the
   content after them. *)
C10_MarkersInSpansAreResolvedFirst ==
    pc = "formatted"
    => /\ IsDigestSpan(text) => result = HexDigest(EmSub(BoldSub(Inner(text))))
       /\ IsStripSpan(text) => result = WithoutC(EmSub(BoldSub(Inner(text))))

(* Reached: [[**a**]] has been formatted, and the result is the digest of
   <b>a</b>, not of **a**. *)
C10_Witness ==
    /\ pc = "formatted"
    /\ text = <<"[", "[", "*", "*", "a", "*", "*", "]", "]">>
    /\ result = HexDigest(<<"<", "b", ">", "a", "<", "/", "b", ">">>)
    /\ result # HexDigest(<<"*", "*", "a", "*", "*">>)
    /\ result = <<"d", "0", "d", "0", "b", "3", "7", "1", "e", "0", "7", "f", "a", "a", "3", "5",
                  "4", "7", "8", "d", "8", "d", "d", "e", "6", "7", "3", "a", "8", "c", "c", "5">>

(* The text is s between (( and )), for any content s. *)
IsWrapped(t) ==
    /\ Len(t) >= 4
    /\ SubSeq(t, 1, 2) = <<"(", "(">>
    /\ SubSeq(t, Len(t) - 1, Len(t)) = <<")", ")">>

(* s holds two non-overlapping occurrences of the two-character marker. *)
HasPair(s, marker) ==
    \E i, j \in 1..Len(s) :
        /\ i + 2 <= j
        /\ j + 1 <= Len(s)
        /\ SubSeq(s, i, i + 1) = marker
        /\ SubSeq(s, j, j + 1) = marker

(* s holds no bold pair, no emphasis pair and no line break. *)
IsPlain(s) ==
    /\ ~HasPair(s, <<"*", "*">>)
    /\ ~HasPair(s, <<"_", "_">>)
    /\ \A i \in 1..Len(s) : s[i] # "\n"

(* C11, as stated: for every content s, ((s)) becomes s without its c and C
   and with no other character changed; the result is not longer than s, and
   deleting c and C from it again changes nothing. *)
C11_StripAnyContent ==
    (pc = "formatted" /\ IsWrapped(text))
    => /\ result = WithoutC(Inner(text))
       /\ Len(result) <= Len(Inner(text))
       /\ StripRepl(result) = result

(* C11, amended: for every content s that holds no bracket, no parenthesis, no
   line break and no pair of ** or of __, ((s)) becomes s without its c and C
   and with no other character changed; the result is not longer than s, and
   deleting c and C from it again changes nothing. *)
C11_StripPlainContent ==
    (pc = "formatted" /\ IsStripSpan(text) /\ IsPlain(Inner(text)))
    => /\ result = WithoutC(Inner(text))
       /\ Len(result) <= Len(Inner(text))
       /\ StripRepl(result) = result

(* Reached: ((cCa)) has been formatted to a. *)
C11_Witness ==
    /\ pc = "formatted"
    /\ text = <<"(", "(", "c", "C", "a", ")", ")">>
    /\ result = <<"a">>

(* The digit of the heading level of a run of k '#'. *)
LevelDigit(k) == <<"1", "2", "3", "4", "5", "6">>[IF k <= 6 THEN k ELSE 6]

(* The text is k '#', one space and a non-empty rest. *)
IsHeadingLine(t, k) ==
    /\ k >= 1
    /\ Len(t) >= k + 2
    /\ \A i \in 1..k : t[i] = "#"
    /\ t[k + 1] = " "

(* C12: for a line made of k >= 1 '#', one space and a non-empty text t,
   parse_heading returns <hL>t</hL> with L = k when k <= 6 and L = 6 when
   k > 6. *)
C12_HeadingLevel ==
    pc = "heading"
    => \A k \in 1..Len(text) :
           IsHeadingLine(text, k)
           => result = <<"<", "h", LevelDigit(k), ">">> \o SubSeq(text, k + 2, Len(text))
                         \o <<"<", "/", "h", LevelDigit(k), ">">>

(* Reached: a line of seven '#', a space and a has become <h6>a</h6>. *)
C12_Witness ==
    /\ pc = "heading"
    /\ text = <<"#", "#", "#", "#", "#", "#", "#", " ", "a">>
    /\ result = <<"<", "h", "6", ">", "a", "<", "/", "h", "6", ">">>

(* C17: the text of a heading line stands in the heading fragment as it is
   written, with no bold, emphasis, digest or strip substitution, whereas the
   payload of a list item stands in its <li> as parse_inline_formatting
   returns it. *)
C17_HeadingTextAsIs ==
    /\ pc = "heading"
       => \A k \in 1..Len(text) :
              IsHeadingLine(text, k)
              => SubSeq(result, 5, Len(result) - 5) = SubSeq(text, k + 2, Len(text))
    /\ (pc = "ul_item" /\ Len(text) >= 2 /\ SubSeq(text, 1, 2) = <<"-", " ">>)
       => result = <<"<", "l", "i", ">">> \o parse_inline_formatting(SubSeq(text, 3, Len(text)))
                     \o <<"<", "/", "l", "i", ">">>
    /\ (pc = "ol_item" /\ Len(text) >= 2 /\ SubSeq(text, 1, 2) = <<"*", " ">>)
       => result = <<"<", "l", "i", ">">> \o parse_inline_formatting(SubSeq(text, 3, Len(text)))
                     \o <<"<", "/", "l", "i", ">">>
    /\ (pc = "ul_item" /\ text = <<"-", " ", "*", "*", "a", "*", "*">>)
       => result = <<"<", "l", "i", ">", "<", "b", ">", "a", "<", "/", "b", ">",
                     "<", "/", "l", "i", ">">>

(* Reached: the heading line # **a**((c)) has kept its markers. *)
C17_Witness ==
    /\ pc = "heading"
    /\ text = <<"#", " ", "*", "*", "a", "*", "*", "(", "(", "c", ")", ")">>
    /\ result = <<"<", "h", "1", ">", "*", "*", "a", "*", "*", "(", "(", "c", ")", ")",
                  "<", "/", "h", "1", ">">>

(* The fragments of the example, in order. *)
ExampleFragments ==
    << <<"<", "h", "1", ">", "T", "i", "t", "l", "e", "<", "/", "h", "1", ">">>,
       <<"<", "p", ">">>,
       <<"H", "e", "l", "l", "o", " ", "<", "b", ">", "w", "o", "r", "l", "d", "<", "/", "b", ">">>,
       <<"<", "/", "p", ">">>,
       <<"<", "u", "l", ">">>,
       <<"<", "l", "i", ">", "o", "n", "e", "<", "/", "l", "i", ">">>,
       <<"<", "l", "i", ">", "t", "w", "o", "<", "/", "l", "i", ">">>,
       <<"<", "/", "u", "l", ">">> >>

(* The fragments with one line break between every two of them. *)
RECURSIVE OnePerLine(_)
OnePerLine(fs) == IF fs = <<>> THEN <<>>
                  ELSE IF Len(fs) = 1 THEN fs[1]
                  ELSE fs[1] \o <<"\n">> \o OnePerLine(SubSeq(fs, 2, Len(fs)))

(* C13: when the lines "# Title", "", "Hello **world**", "- one", "- two" have
   been read and the input has ended, the fragments are exactly <h1>Title</h1>,
   <p>, Hello <b>world</b>, </p>, <ul>, <li>one</li>, <li>two</li>, </ul>, in
   that order, and this is what is written, one fragment per line. *)
C13_Example ==
    (consumed = ExampleInput /\ pc \in {"write", "return", "exit"})
    => /\ Texts(html_lines) = ExampleFragments
       /\ pc \in {"return", "exit"} => output_file = <<OnePerLine(ExampleFragments)>>

(* Reached: the example has been converted and written. *)
C13_Witness ==
    /\ pc = "exit"
    /\ exit_status = 0
    /\ consumed = ExampleInput
    /\ Len(html_lines) = 8
    /\ output_file # <<>>

(* C14: the program exits with a non-zero status and a message on standard
   error when it is given fewer than two positional arguments or the input
   file does not exist, and it exits with status zero only when the conversion
   has read every line, closed the blocks and written the output. *)
C14_ExitStatus ==
    /\ (pc = "exit" /\ (Len(argv) - 1 < 2 \/ ~input_exists))
       => /\ exit_status # 0
          /\ Len(stderr) = 1
    /\ pc = "exit" <=> exit_status # -1
    /\ exit_status = 0
       => /\ pc = "exit"
          /\ Len(argv) - 1 >= 2
          /\ input_exists
          /\ last.op = "eof"
          /\ nread = md_file_len
          /\ output_file = <<join(html_lines)>>
          /\ stderr = <<>>

(* Reached: the program has exited with status 1 after the usage message, the
   input file being there. *)
C14_Witness ==
    /\ pc = "exit"
    /\ exit_status = 1
    /\ Len(argv) = 2
    /\ input_exists
    /\ stderr = << <<"Usage: ./markdown2html.py README.md README.html">> >>

(* C20: when the program exits because it has too few arguments or no input
   file, no line has been read, no fragment emitted and the output file is
   absent and was never written; the output file is written once at most, and
   only when every line has been read and no block is open; a successful exit
   has written it once. *)
C20_OutputWrittenOnce ==
    /\ (pc = "exit" /\ exit_status # 0)
       => /\ html_lines = <<>>
          /\ consumed = <<>>
          /\ nread = 0
          /\ last = NoStep
          /\ output_file = <<>>
          /\ writes = 0
    /\ writes <= 1
    /\ writes = 0 <=> output_file = <<>>
    /\ writes = 1
       => /\ pc \in {"return", "exit"}
          /\ last.op = "eof"
          /\ nread = md_file_len
          /\ Len(consumed) = md_file_len
          /\ OpenAfter(Len(html_lines)) = 0
          /\ output_file = <<join(html_lines)>>
    /\ (pc = "exit" /\ exit_status = 0) => writes = 1

(* Reached: the program has exited because the input file is missing, and
   there is no output file. *)
C20_Witness ==
    /\ pc = "exit"
    /\ exit_status = 1
    /\ Len(argv) = 3
    /\ ~input_exists
    /\ output_file = <<>>
    /\ stderr = << <<"Missing", "README.md">> >>

(* The classes of the classifier, each by its own test on the trimmed line l
   (for blank: on the raw line). *)
LooksHeading(l) == \E k \in 1..Len(l) : Len(l) >= k + 1 /\ l[k + 1] = " " /\ \A i \in 1..k : l[i] = "#"

LooksUl(l) == Len(l) >= 2 /\ l[1] = "-" /\ l[2] = " "

LooksOl(l) == Len(l) >= 2 /\ l[1] = "*" /\ l[2] = " "

LooksBlank(raw) == \A i \in 1..Len(raw) : raw[i] \in {" ", "\t", "\n", "\r"}

(* The first class that matches, in the order heading, unordered item, ordered
   item, blank, paragraph text. *)
PriorityClass(l, raw) ==
    IF LooksHeading(l) THEN "heading"
    ELSE IF LooksUl(l) THEN "ul"
    ELSE IF LooksOl(l) THEN "ol"
    ELSE IF LooksBlank(raw) THEN "blank"
    ELSE "text"

(* The classes other than paragraph text that match. *)
MatchingClasses(l, raw) ==
    (IF LooksHeading(l) THEN {"heading"} ELSE {})
    \cup (IF LooksUl(l) THEN {"ul"} ELSE {})
    \cup (IF LooksOl(l) THEN {"ol"} ELSE {})
    \cup (IF LooksBlank(raw) THEN {"blank"} ELSE {})

(* C15: the branch the loop has taken for the line just read is that of the
   first class that matches in the order heading, unordered item, ordered
   item, blank, paragraph text, and the line matches at most one of the first
   four classes. *)
C15_PriorityClassification ==
    (pc = "loop" /\ last.op # "none")
    => /\ last.op = PriorityClass(line, consumed[nread])
       /\ Cardinality(MatchingClasses(line, consumed[nread])) <= 1

(* Reached: the line "- " has been read, trimmed to "-" and taken as paragraph
   text. *)
C15_Witness ==
    /\ pc = "loop"
    /\ last.op = "text"
    /\ consumed[nread] = <<"-", " ", "\n">>
    /\ line = <<"-">>
    /\ in_paragraph

(* The open tag a close tag answers. *)
OpenOfClose(close) == <<"<">> \o SubSeq(close, 3, Len(close))

(* Among the first k fragments of fs, the opens of the tag that are not closed. *)
OpenCount(fs, k, close) ==
    Cardinality({i \in 1..k : fs[i].kind = "open" /\ fs[i].text = OpenOfClose(close)})
    - Cardinality({i \in 1..k : fs[i].kind = "close" /\ fs[i].text = close})

(* C16: every step leaves the fragments emitted before it where they are and
   as they are, and only appends; and every close fragment it appends is the
   close tag of a block that is open where the fragment is appended. *)
C16_AppendOnly ==
    [][/\ Len(html_lines') >= Len(html_lines)
       /\ SubSeq(html_lines', 1, Len(html_lines)) = html_lines
       /\ \A i \in (Len(html_lines) + 1)..Len(html_lines') :
              html_lines'[i].kind = "close"
              => /\ html_lines'[i].text \in {TagCloseP, TagCloseList(UL), TagCloseList(OL)}
                 /\ OpenCount(html_lines', i - 1, html_lines'[i].text) >= 1]_vars

(* Reached: an ordered item read while an unordered list and a paragraph are
   open has appended two close fragments, an open and an item after the
   fragments that were there. *)
C16_Witness ==
    /\ pc = "loop"
    /\ last.op = "ol"
    /\ last.list = UL
    /\ last.par
    /\ last.len >= 4
    /\ Kinds(Appended) = <<"close", "close", "open", "item">>

(* The name of the tag of an open or close fragment. *)
TagName(f) == IF f.kind = "open" THEN SubSeq(f.text, 2, Len(f.text) - 1)
              ELSE SubSeq(f.text, 3, Len(f.text) - 1)

(* The stack of the open tags, outermost first, after fragment f has been put
   after a point where the stack is s; <<"bad">> from the first close on that
   does not close the innermost open tag. *)
StackStep(s, f) ==
    IF s = <<"bad">> THEN s
    ELSE IF f.kind = "open" THEN Append(s, TagName(f))
    ELSE IF f.kind = "close"
         THEN IF s # <<>> /\ s[Len(s)] = TagName(f)
              THEN SubSeq(s, 1, Len(s) - 1)
              ELSE <<"bad">>
    ELSE s

(* The stacks after the first 0, 1, ..., k fragments of fs. *)
RECURSIVE StacksUpTo(_, _)
StacksUpTo(fs, k) ==
    IF k = 0 THEN << <<>> >>
    ELSE LET before == StacksUpTo(fs, k - 1)
         IN Append(before, StackStep(before[k], fs[k]))

(* The stack after the first k fragments. *)
StackAfter(fs, k) == StacksUpTo(fs, k)[k + 1]

WellNestedStacks ==
    { <<>>, <<<<"p">>>>, <<<<"u", "l">>>>, <<<<"o", "l">>>>,
      <<<<"u", "l">>, <<"p">>>>, <<<<"o", "l">>, <<"p">>>> }

(* C18: after every fragment emitted so far the stack of the open tags is one
   of [], [p], [ul], [ol], [ul, p], [ol, p]; every close fragment closes the
   innermost open tag; and a list open fragment never stands where a paragraph
   is open. *)
C18_WellNested ==
    LET stacks == StacksUpTo(html_lines, Len(html_lines))
    IN \A k \in 1..Len(html_lines) :
           /\ stacks[k + 1] \in WellNestedStacks
           /\ html_lines[k].kind = "close"
              => stacks[k] # <<>> /\ stacks[k][Len(stacks[k])] = TagName(html_lines[k])
           /\ (html_lines[k].kind = "open" /\ TagName(html_lines[k]) \in {UL, OL})
              => \A j \in 1..Len(stacks[k]) : stacks[k][j] # <<"p">>

(* Reached: a blank line read while an ordered list and, inside it, a
   paragraph are open has closed the paragraph and then the list. *)
C18_Witness ==
    /\ pc = "loop"
    /\ last.op = "blank"
    /\ StackAfter(html_lines, last.len) = <<<<"o", "l">>, <<"p">>>>
    /\ Len(html_lines) = last.len + 2
    /\ StackAfter(html_lines, last.len + 1) = <<<<"o", "l">>>>
    /\ StackAfter(html_lines, Len(html_lines)) = <<>>

(* C19: every <ul> or <ol> fragment is directly followed by an <li> fragment,
   every <p> fragment by a text fragment; every <br/> fragment stands directly
   between two text fragments; every <li> fragment stands where a list and no
   paragraph is open, and every text fragment where a paragraph is open. *)
C19_NoEmptyBlock ==
    LET stacks == StacksUpTo(html_lines, Len(html_lines))
    IN \A k \in 1..Len(html_lines) :
        LET f == html_lines[k]
            s == stacks[k]
        IN /\ (f.kind = "open" /\ TagName(f) \in {UL, OL})
              => k < Len(html_lines) /\ html_lines[k + 1].kind = "item"
           /\ (f.kind = "open" /\ TagName(f) = <<"p">>)
              => k < Len(html_lines) /\ html_lines[k + 1].kind = "text"
           /\ f.kind = "br"
              => /\ 1 < k /\ k < Len(html_lines)
                 /\ html_lines[k - 1].kind = "text"
                 /\ html_lines[k + 1].kind = "text"
           /\ f.kind = "item" => s \in { <<UL>>, <<OL>> }
           /\ f.kind = "text" => s # <<>> /\ s[Len(s)] = <<"p">>

(* Reached: inside an unordered list a paragraph of two lines, with its <br/>,
   and after it an item of that list. *)
C19_Witness ==
    /\ pc = "loop"
    /\ last.op = "ul"
    /\ Kinds(html_lines) = <<"open", "item", "open", "text", "br", "text", "close", "item">>

====
